---------------------------- MODULE Spec2Model ----------------------------
(***************************************************************************)
(* A state-machine model of intro-geopands.ipynb, the notebook of the      *)
(* DSSG 2024 geospatial tutorial.                                          *)
(*                                                                         *)
(* The notebook is a straight-line program of 51 code cells.  A            *)
(* top-to-bottom run executes the cell at position pc, then the next one;  *)
(* a cell that raises ends the run.  The state is the kernel's namespace   *)
(* (env), the mutable frame objects the names refer to (heap), what the    *)
(* remote sources returned (fetched), the reads and writes done so far     *)
(* (io), and a record of every geometric computation (geo).                *)
(*                                                                         *)
(* The pandas / geopandas / shapely calls are modelled by what they do to  *)
(* a frame: a frame is a list of column names, a list of rows (one value   *)
(* per column), the index labels of the rows, the name of the geometry     *)
(* column ("" for a plain DataFrame) and the coordinate reference system.  *)
(* Coordinates are points of a small integer grid.                         *)
(***************************************************************************)
EXTENDS Integers, Sequences, FiniteSets, TLC

VARIABLES pc, status, env, heap, fetched, io, geo, runs

vars == <<pc, status, env, heap, fetched, io, geo, runs>>

-----------------------------------------------------------------------------
(* Bounds of the model: the longest table each remote source may return.   *)
MaxPlaces == 3
MaxTrips == 2
MaxHoods == 2

(* The longest places table of the runs that follow the hull (HullSpec).   *)
MaxPoints == 4

(* The number of code cells of the notebook.                               *)
NCells == 51

-----------------------------------------------------------------------------
(* Literals of the notebook.                                               *)
PlacesUrl == "https://github.com/uwescience/dssg-pandas-sql-tutorial/raw/master/data/Places_Full.csv"
DistUrl == "https://github.com/uwescience/dssg-pandas-sql-tutorial/raw/master/data/Dist_Out.csv"
NhoodUrl == "https://raw.githubusercontent.com/seattleio/seattle-boundaries-data/master/data/neighborhoods.geojson"
PlacesPath == "./data/places.geojson"
ShapePath == "./data/myshape.gpkg"
ShpPath == "./data/myshape.shp"
PId == "ChIJEerXpl0RkFQRDOjfwBQDzlA"
TraderJoesId == "ChIJx0M1ztNqkFQRtgspEllQxk8"
UDistrict == "University District"
WGS84 == "EPSG:4326"
UTM10N == "EPSG:32610"
NaN == "NaN"

(* The column headers the notebook documents for the two CSV files, and    *)
(* the columns of the boundary file that the notebook reads.               *)
PlaceCols == <<"name", "address", "city", "lat", "lng", "place_id", "rating", "class", "type">>
TripCols == <<"class", "departure_time", "distance.value", "duration.value",
              "duration_in_traffic.value", "end_lat", "end_lon", "fare.value", "mode",
              "origin", "pair", "place_id", "rank", "start_lat", "start_lon", "status">>
HoodCols == <<"name", "nhood", "geometry">>
SubsetCols == <<"place_id", "departure_time", "distance.value", "duration.value">>

-----------------------------------------------------------------------------
(* Geometries.  A point is a grid position; a polygon is given by the set  *)
(* of its corner points (all polygons of the model are convex).            *)
Pt(x, y) == [g |-> "Point", xy |-> <<x, y>>]
Poly(vs) == [g |-> "Polygon", verts |-> vs]
Box(x0, x1, y0, y1) == Poly({<<x0, y0>>, <<x1, y0>>, <<x1, y1>>, <<x0, y1>>})

(* The rows a remote source may return.  Latitude and longitude are grid   *)
(* indices; a missing value is the marker NaN.                             *)
PlacePool ==
  { <<"Trader Joe's", "1700 East Madison Street", "Seattle", 2, 3, TraderJoesId, 45,
      "supermarket", NaN>>,
    <<"Northwest Hospital", "1550 North 115th Street", NaN, 4, 2, PId, 30,
      "hospital", NaN>>,
    <<"University Book Store", "4326 University Way NE", "Seattle", 3, 3,
      "ChIJUniversityBookStore", 44, "book_store", NaN>> }

TripPool ==
  { <<"hospital", "2018-06-06 12:41:26", 147, 32, NaN, 4, 2, NaN, "walking",
      "530330001003", "530330001003-ChIJEerXpl0RkFQRDOjfwBQDzlA", PId, 1, 4, 3, "OK">>,
    <<"supermarket", "2018-06-06 12:41:26", 260, 11, NaN, 2, 3, NaN, "driving",
      "530330001004", "530330001004-ChIJx0M1ztNqkFQRtgspEllQxk8", TraderJoesId, 2, 1, 0,
      "OK">> }

HoodPool ==
  { <<"University District", UDistrict, Box(2, 4, 2, 4)>>,
    <<"Adams", "Ballard", Box(0, 3, 3, 5)>> }

(* Places that differ in their position only: the corners of a triangle,   *)
(* a point inside it and a point on one of its sides.                      *)
GridPlace(x, y) == <<"Cafe", "1 Main Street", "Seattle", y, x, "ChIJCafe", 40, "cafe", NaN>>
GridPool ==
  { GridPlace(0, 0), GridPlace(4, 0), GridPlace(0, 4), GridPlace(1, 1), GridPlace(2, 2) }

(* All sequences over S of length lo..hi.                                  *)
SeqsOf(S, lo, hi) == UNION { [1..n -> S] : n \in lo..hi }

PlaceTables == SeqsOf(PlacePool, 1, MaxPlaces)
TripTables == SeqsOf(TripPool, 1, MaxTrips)
HoodTables == SeqsOf(HoodPool, 1, MaxHoods)
GridTables == SeqsOf(GridPool, 1, MaxPoints)

-----------------------------------------------------------------------------
(* Frames (pandas.DataFrame / geopandas.GeoDataFrame).                     *)

HasCol(f, c) == \E i \in 1..Len(f.cols) : f.cols[i] = c
ColIdx(f, c) == CHOOSE i \in 1..Len(f.cols) : f.cols[i] = c
At(f, i, c) == f.rows[i][ColIdx(f, c)]
Column(f, c) == [i \in 1..Len(f.rows) |-> At(f, i, c)]

(* pd.read_csv: the rows of the file under its header, with a RangeIndex.  *)
ReadCsv(cols, rows) ==
  [cols |-> cols, rows |-> rows, index |-> [i \in 1..Len(rows) |-> i - 1],
   geom |-> "", crs |-> ""]

(* pyproj's reading of a CRS string: the authority name is case-blind.     *)
NormCrs(s) ==
  CASE s = "epsg:32610" -> UTM10N
    [] s = "epsg:4326" -> WGS84
    [] OTHER -> s

(* gpd.read_file of a GeoJSON source: the features as rows; GeoJSON        *)
(* coordinates are WGS84 longitude/latitude.                               *)
ReadFile(cols, rows) ==
  [cols |-> cols, rows |-> rows, index |-> [i \in 1..Len(rows) |-> i - 1],
   geom |-> "geometry", crs |-> WGS84]

(* DataFrame.rename(columns={old: new}): only the header changes.          *)
Rename(f, old, new) ==
  [f EXCEPT !.cols = [i \in 1..Len(f.cols) |-> IF f.cols[i] = old THEN new ELSE f.cols[i]]]

(* Mutant of Isna: the mask of the rows that do have a value (notna).      *)
Notna(f, c) == [i \in 1..Len(f.rows) |-> At(f, i, c) # NaN]

(* Series.isna() of a column.                                              *)
Isna(f, c) == [i \in 1..Len(f.rows) |-> At(f, i, c) = NaN]

(* The positions a boolean mask selects, in order.                         *)
Selected(mask) == SelectSeq([i \in 1..Len(mask) |-> i], LAMBDA i : mask[i])

(* The rows at the given positions, keeping their index labels.            *)
Take(f, pos) ==
  [f EXCEPT !.rows = [j \in 1..Len(pos) |-> f.rows[pos[j]]],
            !.index = [j \in 1..Len(pos) |-> f.index[pos[j]]]]

(* df[mask]: boolean indexing returns a new frame.                         *)
BoolIndex(f, mask) == Take(f, Selected(mask))

(* frame.query('col == @val').                                             *)
Query(f, c, val) == BoolIndex(f, [i \in 1..Len(f.rows) |-> At(f, i, c) = val])

(* Mutant of PointsFromXY: the two coordinates taken in the other order.   *)
PointsFromYX(xs, ys) == [i \in 1..Len(xs) |-> Pt(ys[i], xs[i])]

(* gpd.points_from_xy(x, y): one point per position.                       *)
PointsFromXY(xs, ys) == [i \in 1..Len(xs) |-> Pt(xs[i], ys[i])]

(* gpd.GeoDataFrame(data, geometry=..., crs=...): a new frame holding the  *)
(* columns of data and the geometry column.                                *)
GeoDataFrame(f, geometry, crs) ==
  [cols |-> Append(f.cols, "geometry"),
   rows |-> [i \in 1..Len(f.rows) |-> Append(f.rows[i], geometry[i])],
   index |-> f.index, geom |-> "geometry", crs |-> NormCrs(crs)]

(* gpd.GeoDataFrame(geometry=[...], crs=...): geometries only.             *)
GeoFrameOf(geoms, crs) ==
  [cols |-> <<"geometry">>, rows |-> [i \in 1..Len(geoms) |-> <<geoms[i]>>],
   index |-> [i \in 1..Len(geoms) |-> i - 1], geom |-> "geometry", crs |-> NormCrs(crs)]

(* frame.loc[:, cols]: the named columns; a frame that loses its geometry  *)
(* column is a plain DataFrame.                                            *)
LocCols(f, cols) ==
  LET keeps == \E j \in 1..Len(cols) : cols[j] = f.geom
  IN [cols |-> cols,
      rows |-> [i \in 1..Len(f.rows) |-> [j \in 1..Len(cols) |-> At(f, i, cols[j])]],
      index |-> f.index,
      geom |-> IF keeps THEN f.geom ELSE "",
      crs |-> IF keeps THEN f.crs ELSE ""]

(* frame.loc[:, c] = values: sets column c, adding it when it is new.      *)
SetCol(f, c, values) ==
  IF HasCol(f, c)
  THEN [f EXCEPT !.rows = [i \in 1..Len(f.rows) |->
                             [f.rows[i] EXCEPT ![ColIdx(f, c)] = values[i]]]]
  ELSE [f EXCEPT !.cols = Append(f.cols, c),
                 !.rows = [i \in 1..Len(f.rows) |-> Append(f.rows[i], values[i])]]

-----------------------------------------------------------------------------
(* Geometry (shapely, pyproj).                                             *)

(* Twice the signed area of the triangle o, a, b.                          *)
Cross(o, a, b) == (a[1] - o[1]) * (b[2] - o[2]) - (a[2] - o[2]) * (b[1] - o[1])

Between(lo, v, hi) == (lo <= v /\ v <= hi) \/ (hi <= v /\ v <= lo)

(* p lies on the closed segment a b.                                       *)
OnSegment(p, a, b) ==
  /\ Cross(a, b, p) = 0
  /\ Between(a[1], p[1], b[1])
  /\ Between(a[2], p[2], b[2])

(* p lies in the closed triangle a b c, which is not degenerate.           *)
InTriangle(p, a, b, c) ==
  /\ Cross(a, b, c) # 0
  /\ Cross(a, b, p) * Cross(a, b, c) >= 0
  /\ Cross(b, c, p) * Cross(b, c, a) >= 0
  /\ Cross(c, a, p) * Cross(c, a, b) >= 0

(* The corner points of the convex hull of the point set S.                *)
Extreme(S) ==
  { p \in S :
      /\ ~ \E a, b \in S \ {p} : a # b /\ OnSegment(p, a, b)
      /\ ~ \E a, b, c \in S \ {p} : InTriangle(p, a, b, c) }

(* Mutant of ConvexHull: the bounding rectangle of the points (envelope).  *)
Envelope(points) ==
  LET S == { points[i].xy : i \in 1..Len(points) }
      xs == { p[1] : p \in S }
      ys == { p[2] : p \in S }
      lo(V) == CHOOSE v \in V : \A w \in V : v <= w
      hi(V) == CHOOSE v \in V : \A w \in V : v >= w
  IN Box(lo(xs), hi(xs), lo(ys), hi(ys))

(* MultiPoint(points).convex_hull: a polygon, or a line or a point when    *)
(* the points do not span an area.                                         *)
ConvexHull(points) ==
  LET S == { points[i].xy : i \in 1..Len(points) }
      E == Extreme(S)
  IN CASE Cardinality(E) >= 3 -> Poly(E)
       [] Cardinality(E) = 2 -> [g |-> "LineString", verts |-> E]
       [] Cardinality(E) = 1 -> Pt((CHOOSE p \in E : TRUE)[1], (CHOOSE p \in E : TRUE)[2])
       [] OTHER -> [g |-> "GeometryCollection", verts |-> {}]

(* geometry.boundary: the ring of a polygon, the end points of a line.     *)
Boundary(geometry) ==
  CASE geometry.g = "Polygon" -> [g |-> "LineString", verts |-> geometry.verts]
    [] geometry.g = "LineString" -> [g |-> "MultiPoint", verts |-> geometry.verts]
    [] OTHER -> [g |-> "GeometryCollection", verts |-> {}]

(* a b is a side of the convex polygon with corners V.                     *)
IsSide(V, a, b) ==
  /\ a # b
  /\ \/ \A c \in V : Cross(a, b, c) >= 0
     \/ \A c \in V : Cross(a, b, c) <= 0

Abs(n) == IF n < 0 THEN -n ELSE n

(* Twice the area of the triangles o a b, one for each side {a, b}.        *)
RECURSIVE FanArea2(_, _)
FanArea2(o, sides) ==
  IF sides = {} THEN 0
  ELSE LET s == CHOOSE t \in sides : TRUE
           a == CHOOSE v \in s : TRUE
           b == CHOOSE v \in s \ {a} : TRUE
       IN Abs(Cross(o, a, b)) + FanArea2(o, sides \ {s})

(* Twice the area of a geometry (an integer on the grid); lines and points *)
(* have none.  The polygon is cut into the triangles that fan out from one *)
(* corner to each side not touching it.                                    *)
Area2(geometry) ==
  IF geometry.g # "Polygon" THEN 0
  ELSE LET V == geometry.verts
           o == CHOOSE v \in V : TRUE
           sides == { s \in SUBSET (V \ {o}) :
                        /\ Cardinality(s) = 2
                        /\ \E a, b \in s : a # b /\ IsSide(V, a, b) }
       IN FanArea2(o, sides)

(* Mutant of Within: a point on the boundary counts too (intersects).      *)
Intersects(p, geometry) ==
  /\ geometry.g = "Polygon"
  /\ \A a, b \in geometry.verts :
       IsSide(geometry.verts, a, b) =>
         \E c \in geometry.verts : Cross(a, b, c) # 0 /\ Cross(a, b, p) * Cross(a, b, c) >= 0

(* p is within the geometry: in its interior, not on its boundary.         *)
Within(p, geometry) ==
  /\ geometry.g = "Polygon"
  /\ \A a, b \in geometry.verts :
       IsSide(geometry.verts, a, b) =>
         \E c \in geometry.verts : Cross(a, b, p) * Cross(a, b, c) > 0

(* The largest r with r * r <= n.                                          *)
ISqrt(n) == CHOOSE r \in 0..n : r * r <= n /\ (r + 1) * (r + 1) > n

(* point.distance(point): the Euclidean distance of the coordinates, in    *)
(* the unit of the coordinates, rounded down to the grid.                  *)
Distance(a, b) ==
  ISqrt((a.xy[1] - b.xy[1]) * (a.xy[1] - b.xy[1]) + (a.xy[2] - b.xy[2]) * (a.xy[2] - b.xy[2]))

(* The forward map from longitude/latitude to UTM zone 10N easting and     *)
(* northing, as a linear map of the grid: one to one, with its own scale   *)
(* on each axis and the zone's false easting.                              *)
Project(xy) == <<500 + 3 * xy[1], 4 * xy[2]>>

Transform(geometry) ==
  IF geometry.g = "Point" THEN Pt(Project(geometry.xy)[1], Project(geometry.xy)[2])
  ELSE [geometry EXCEPT !.verts = { Project(v) : v \in geometry.verts }]

(* frame.to_crs(crs): the frame with every geometry transformed to crs.    *)
ToCrs(f, crs) ==
  IF f.crs = NormCrs(crs) THEN f
  ELSE [f EXCEPT !.crs = NormCrs(crs),
                 !.rows = [i \in 1..Len(f.rows) |->
                             [f.rows[i] EXCEPT ![ColIdx(f, f.geom)] = Transform(@)]]]

(* GeoSeries.area and GeoSeries.distance(point), one value per row.        *)
AreaOf(f) == [i \in 1..Len(f.rows) |-> Area2(At(f, i, f.geom))]
DistanceTo(f, point) == [i \in 1..Len(f.rows) |-> Distance(At(f, i, f.geom), point)]

-----------------------------------------------------------------------------
(* Joins.                                                                  *)

Names(cols) == { cols[i] : i \in 1..Len(cols) }
DropAt(seq, k) == SubSeq(seq, 1, k - 1) \o SubSeq(seq, k + 1, Len(seq))

(* cols, with sfx appended to every name that is also in other.            *)
Suffixed(cols, other, sfx) ==
  [i \in 1..Len(cols) |-> IF cols[i] \in other THEN cols[i] \o sfx ELSE cols[i]]

(* The pairs <<i, j>> of a left and a right position, ordered by the left  *)
(* position and then by the right one.                                     *)
Pairs(nl, nr) == [n \in 1..(nl * nr) |-> <<((n - 1) \div nr) + 1, ((n - 1) % nr) + 1>>]

(* Mutant of Merge: a left join (how='left'): a left row that matches no   *)
(* right row is kept, with missing values in the right columns.            *)
MergeLeft(l, r, key) ==
  LET match(i, j) == At(l, i, key) = At(r, j, key)
      rk == ColIdx(r, key)
      rcols == DropAt(r.cols, rk)
      lone(i) == \A j \in 1..Len(r.rows) : ~ match(i, j)
      Joined(pairs) ==
        [cols |-> l.cols \o rcols,
         rows |-> [n \in 1..Len(pairs) |->
                     l.rows[pairs[n][1]] \o
                       (IF lone(pairs[n][1]) THEN [c \in 1..Len(rcols) |-> NaN]
                        ELSE DropAt(r.rows[pairs[n][2]], rk))],
         index |-> [n \in 1..Len(pairs) |-> n - 1],
         geom |-> l.geom, crs |-> l.crs]
  IN CHOOSE frame \in
       { Joined(pairs) :
           pairs \in { SelectSeq(Pairs(Len(l.rows), Len(r.rows)),
                                 LAMBDA q : match(q[1], q[2]) \/ (q[2] = 1 /\ lone(q[1]))) } } :
       TRUE

(* left.merge(right, on=key): the inner join on equal key values.  The key *)
(* column appears once; other names the two frames share get _x and _y.    *)
(* The rows are renumbered.  The matching pairs are the one element of a   *)
(* set, so that they are computed once for the frame.                      *)
Merge(l, r, key) ==
  LET rk == ColIdx(r, key)
      rcols == DropAt(r.cols, rk)
      shared == (Names(l.cols) \cap Names(rcols)) \ {key}
      Joined(pairs) ==
        [cols |-> Suffixed(l.cols, shared, "_x") \o Suffixed(rcols, shared, "_y"),
         rows |-> [n \in 1..Len(pairs) |->
                     l.rows[pairs[n][1]] \o DropAt(r.rows[pairs[n][2]], rk)],
         index |-> [n \in 1..Len(pairs) |-> n - 1],
         geom |-> l.geom, crs |-> l.crs]
  IN CHOOSE frame \in
       { Joined(pairs) :
           pairs \in { SelectSeq(Pairs(Len(l.rows), Len(r.rows)),
                                 LAMBDA q : At(l, q[1], key) = At(r, q[2], key)) } } :
       TRUE

(* gpd.sjoin(left, right, how="inner", predicate="within"): one row for    *)
(* every left geometry and right geometry the left one is within.  The     *)
(* right geometry is dropped, the left one keeps its column; the index     *)
(* label of the right row is added as index_right; other names the two    *)
(* frames share get _left and _right.  The rows keep the left labels.      *)
SJoin(l, r) ==
  LET rg == ColIdx(r, r.geom)
      rcols == DropAt(r.cols, rg)
      shared == Names(l.cols) \cap Names(rcols)
      Joined(pairs) ==
        [cols |-> Suffixed(l.cols, shared, "_left") \o <<"index_right">>
                    \o Suffixed(rcols, shared, "_right"),
         rows |-> [n \in 1..Len(pairs) |->
                     l.rows[pairs[n][1]] \o <<r.index[pairs[n][2]]>>
                       \o DropAt(r.rows[pairs[n][2]], rg)],
         index |-> [n \in 1..Len(pairs) |-> l.index[pairs[n][1]]],
         geom |-> l.geom, crs |-> l.crs]
  IN CHOOSE frame \in
       { Joined(pairs) :
           pairs \in { SelectSeq(Pairs(Len(l.rows), Len(r.rows)),
                                 LAMBDA q : Within(At(l, q[1], l.geom).xy,
                                                   At(r, q[2], r.geom))) } } :
       TRUE

-----------------------------------------------------------------------------
(* The kernel: names, values and objects.                                  *)

(* A value bound to a name: a reference to a frame object of the heap, or  *)
(* an immutable value (a string, a number, a tuple, a geometry).  A        *)
(* geometry taken out of a frame remembers the reference system its        *)
(* coordinates are in.                                                     *)
Ref(id) == [k |-> "ref", id |-> id]
Str(s) == [k |-> "str", v |-> s]
Num(n) == [k |-> "num", v |-> n]
Tup(t) == [k |-> "tuple", v |-> t]
Geo(geometry, crs) == [k |-> "geom", v |-> geometry, crs |-> crs]

(* name = value.                                                           *)
Bind(e, name, value) ==
  [n \in (DOMAIN e) \cup {name} |-> IF n = name THEN value ELSE e[n]]

Bound(name) == name \in DOMAIN env
Obj(name) == heap[env[name].id]
NewId == Len(heap) + 1

(* The names each code cell reads that an earlier statement must have      *)
(* bound (a name the cell binds itself before reading it is not listed).   *)
Reads(k) ==
  CASE k \in {5, 6, 7, 8, 9, 10, 11, 12, 14, 15, 17, 18} -> {"df"}
    [] k \in {19, 20, 21, 22, 25} -> {"gf"}
    [] k \in {23, 24} -> {"polygon"}
    [] k = 26 -> {"subset"}
    [] k = 27 -> {"gf", "gfShape"}
    [] k \in {28, 29, 30} -> {"gfShape"}
    [] k \in {33, 34, 35, 37} -> {"dfD"}
    [] k = 36 -> {"dfD", "gf"}
    [] k = 38 -> {"gf", "gfD"}
    [] k = 39 -> {"gf_merc", "dest"}
    [] k = 40 -> {"gfD_merc"}
    [] k = 41 -> {"pointDest", "pointOrig"}
    [] k = 44 -> {"gf_merc", "gfD_merc"}
    [] k = 45 -> {"gfDest", "pointDest"}
    [] k = 46 -> {"gfD", "gf"}
    [] k = 48 -> {"gfN"}
    [] k = 49 -> {"gfN"}
    [] k = 50 -> {"gf", "gfNeighborhood"}
    [] k = 51 -> {"nhood_places", "neighborhood"}
    [] OTHER -> {}

(* The columns a cell reads by name: <<frame name, column>>.               *)
ReadsCols(k) ==
  CASE k \in {8, 11, 12} -> {<<"df", "city">>}
    [] k = 9 -> {<<"df", "class">>}
    [] k = 10 -> {<<"df", "place_class">>}
    [] k \in {14, 15} -> {<<"df", "rating">>}
    [] k = 17 -> {<<"df", "lng">>, <<"df", "lat">>, <<"df", "rating">>}
    [] k = 18 -> {<<"df", "lng">>, <<"df", "lat">>}
    [] k \in {20, 21} -> {<<"gf", "rating">>}
    [] k = 36 -> {<<"dfD", "place_id">>, <<"gf", "place_id">>}
    [] k = 37 -> {<<"dfD", "start_lon">>, <<"dfD", "start_lat">>}
    [] k = 39 -> {<<"gf_merc", "place_id">>}
    [] k = 44 -> {<<"gf_merc", "place_id">>, <<"gfD_merc", "place_id">>}
    [] k = 45 -> {<<"gfDest", "distance.value">>}
    [] k = 46 -> {<<"gfD", SubsetCols[i]>> : i \in 1..Len(SubsetCols)}
                   \cup {<<"gf", "place_id">>}
    [] k = 49 -> {<<"gfN", "nhood">>}
    [] k = 51 -> {<<"nhood_places", "name_left">>}
    [] OTHER -> {}

(* The cell at k finds every name it reads (else: NameError).              *)
NamesBound(k) == Reads(k) \subseteq DOMAIN env

(* Cell 10 renames the column before it reads place_class; every other    *)
(* cell finds its columns in the frames as they are (else: KeyError).      *)
ColsPresent(k) ==
  \A nc \in ReadsCols(k) :
    \/ k = 10 /\ HasCol(Rename(Obj(nc[1]), "class", "place_class"), nc[2])
    \/ k # 10 /\ HasCol(Obj(nc[1]), nc[2])

(* Mutant of Stop: the cell that raised is executed again.                 *)
StopRetry(k) ==
  /\ pc = k
  /\ status = "running"
  /\ pc' = k
  /\ status' = "running"
  /\ runs' = [runs EXCEPT ![k] = @ + 1]

(* Run-all executes the cell at pc and moves to the next one; after the    *)
(* last cell the run is done.                                              *)
Step(k) ==
  /\ pc = k
  /\ status = "running"
  /\ NamesBound(k)
  /\ ColsPresent(k)
  /\ pc' = k + 1
  /\ status' = IF k = NCells THEN "done" ELSE "running"
  /\ runs' = [runs EXCEPT ![k] = @ + 1]

(* Mutant of Stop: the error is shown and the run goes on with the next    *)
(* cell.                                                                   *)
StopAndGoOn(k) ==
  /\ pc = k
  /\ status = "running"
  /\ pc' = k + 1
  /\ status' = IF k = NCells THEN "done" ELSE "running"
  /\ runs' = [runs EXCEPT ![k] = @ + 1]

(* A cell that raises ends the run: the kernel keeps what was bound, and   *)
(* no later cell is executed.                                              *)
Stop(k) ==
  /\ pc = k
  /\ status = "running"
  /\ pc' = k
  /\ status' = "failed"
  /\ runs' = [runs EXCEPT ![k] = @ + 1]

Init ==
  /\ pc = 1
  /\ status = "running"
  /\ env = [n \in {} |-> Num(0)]
  /\ heap = <<>>
  /\ fetched = [places |-> <<>>, trips |-> <<>>, hoods |-> <<>>]
  /\ io = <<>>
  /\ geo = <<>>
  /\ runs = [k \in 1..NCells |-> 0]

-----------------------------------------------------------------------------
(* The code cells, first part: the places table.                           *)

(* Cells that only import, print, plot or show a value, and cells holding  *)
(* only comments.                                                          *)
DisplayCells ==
  {1, 2, 3, 5, 6, 7, 8, 9, 11, 13, 14, 15, 16, 17, 19, 20, 21, 26, 31, 33, 34, 35,
   42, 43, 48, 51}

Display ==
  /\ pc \in DisplayCells
  /\ Step(pc)
  /\ UNCHANGED <<env, heap, fetched, io, geo>>

(* Cell 4: filePath = '...Places_Full.csv'; df = pd.read_csv(filePath)     *)
ReadPlaces ==
  /\ Step(4)
  /\ \E rows \in PlaceTables :
       /\ fetched' = [fetched EXCEPT !.places = rows]
       /\ heap' = Append(heap, ReadCsv(PlaceCols, rows))
  /\ env' = Bind(Bind(env, "filePath", Str(PlacesUrl)), "df", Ref(NewId))
  /\ io' = Append(io, [op |-> "read", target |-> PlacesUrl, cell |-> 4])
  /\ UNCHANGED geo

(* Mutant of RenameClass: rename without inplace=True, its result dropped. *)
RenameClassDiscarded ==
  /\ Step(10)
  /\ UNCHANGED <<env, heap, fetched, io, geo>>

(* Cell 10: df.rename(columns={'class':'place_class'}, inplace=True)       *)
RenameClass ==
  /\ Step(10)
  /\ heap' = [heap EXCEPT ![env["df"].id] = Rename(@, "class", "place_class")]
  /\ UNCHANGED <<env, fetched, io, geo>>

(* Cell 12: dfNan = df[df.city.isna()]                                     *)
ExtractNan ==
  /\ Step(12)
  /\ heap' = Append(heap, BoolIndex(Obj("df"), Isna(Obj("df"), "city")))
  /\ env' = Bind(env, "dfNan", Ref(NewId))
  /\ UNCHANGED <<fetched, io, geo>>

(* Cell 18: crs = 'EPSG:4326'                                              *)
(*          gf = gpd.GeoDataFrame(df,                                      *)
(*                   geometry=gpd.points_from_xy(df.lng, df.lat), crs=crs) *)
MakeGf ==
  /\ Step(18)
  /\ heap' = Append(heap,
               GeoDataFrame(Obj("df"),
                            PointsFromXY(Column(Obj("df"), "lng"), Column(Obj("df"), "lat")),
                            "EPSG:4326"))
  /\ env' = Bind(Bind(env, "crs", Str("EPSG:4326")), "gf", Ref(NewId))
  /\ UNCHANGED <<fetched, io, geo>>

(* Cell 22: point_collection = shapely.geometry.MultiPoint(                *)
(*              gf.geometry.tolist()); polygon = point_collection.convex_hull *)
Hull ==
  /\ Step(22)
  /\ LET points == Column(Obj("gf"), "geometry")
     IN env' = Bind(Bind(env, "point_collection",
                         Geo([g |-> "MultiPoint",
                              verts |-> { points[i].xy : i \in 1..Len(points) }],
                             Obj("gf").crs)),
                    "polygon", Geo(ConvexHull(points), Obj("gf").crs))
  /\ UNCHANGED <<heap, fetched, io, geo>>

(* Cell 23: perimeter = polygon.boundary                                   *)
Perimeter ==
  /\ Step(23)
  /\ env' = Bind(env, "perimeter", Geo(Boundary(env["polygon"].v), env["polygon"].crs))
  /\ UNCHANGED <<heap, fetched, io, geo>>

(* Cell 24: gfShape = gpd.GeoDataFrame(geometry=[polygon], crs='EPSG:4326') *)
MakeShape ==
  /\ Step(24)
  /\ heap' = Append(heap, GeoFrameOf(<<env["polygon"].v>>, "EPSG:4326"))
  /\ env' = Bind(env, "gfShape", Ref(NewId))
  /\ UNCHANGED <<fetched, io, geo>>

-----------------------------------------------------------------------------
(* The code cells, second part: subsetting, export, area.                  *)

(* The bounding box of cell 25 on the grid: longitude -122.4 .. -122.3 and *)
(* latitude 47.55 .. 47.65.                                                *)
XMin == 1
XMax == 3
YMin == 1
YMax == 3

(* Mutant of Cx: the box without its border.                               *)
CxOpen(f, xmin, xmax, ymin, ymax) ==
  BoolIndex(f, [i \in 1..Len(f.rows) |->
                  LET p == At(f, i, f.geom).xy
                  IN xmin < p[1] /\ p[1] < xmax /\ ymin < p[2] /\ p[2] < ymax])

(* frame.cx[xmin:xmax, ymin:ymax]: the rows whose geometry meets the box.  *)
Cx(f, xmin, xmax, ymin, ymax) ==
  BoolIndex(f, [i \in 1..Len(f.rows) |->
                  LET p == At(f, i, f.geom).xy
                  IN xmin <= p[1] /\ p[1] <= xmax /\ ymin <= p[2] /\ p[2] <= ymax])

(* Cell 25: ymin, ymax, xmin, xmax = [47.55, 47.65, -122.4, -122.3]        *)
(*          subset = gf.cx[xmin:xmax, ymin:ymax]                           *)
Subset ==
  /\ Step(25)
  /\ heap' = Append(heap, Cx(Obj("gf"), XMin, XMax, YMin, YMax))
  /\ env' = Bind(Bind(Bind(Bind(Bind(env, "ymin", Num(YMin)), "ymax", Num(YMax)),
                           "xmin", Num(XMin)), "xmax", Num(XMax)),
                 "subset", Ref(NewId))
  /\ UNCHANGED <<fetched, io, geo>>

(* Mutant of Written: the frame is reprojected to epsg:32610 on its way to *)
(* the file.                                                               *)
WrittenReprojected(f, path, driver, k) ==
  [op |-> "write", target |-> path, driver |-> driver, cell |-> k,
   crs |-> ToCrs(f, "epsg:32610").crs,
   geoms |-> Column(ToCrs(f, "epsg:32610"), f.geom)]

(* frame.to_file(path, driver=...): what reaches the file.                 *)
Written(f, path, driver, k) ==
  [op |-> "write", target |-> path, driver |-> driver, cell |-> k,
   crs |-> f.crs, geoms |-> Column(f, f.geom)]

(* Mutant of Export: the shapefile line of the cell is not commented out.  *)
ExportWithShapefile ==
  /\ Step(27)
  /\ io' = io \o << Written(Obj("gf"), PlacesPath, "GeoJSON", 27),
                    Written(Obj("gfShape"), ShpPath, "ESRI Shapefile", 27),
                    Written(Obj("gfShape"), ShapePath, "GPKG", 27) >>
  /\ UNCHANGED <<env, heap, fetched, geo>>

(* Cell 27: gf.to_file('./data/places.geojson', driver='GeoJSON')          *)
(*          gfShape.to_file('./data/myshape.gpkg', driver='GPKG')          *)
Export ==
  /\ Step(27)
  /\ io' = io \o << Written(Obj("gf"), PlacesPath, "GeoJSON", 27),
                    Written(Obj("gfShape"), ShapePath, "GPKG", 27) >>
  /\ UNCHANGED <<env, heap, fetched, geo>>

(* A geometric computation: the cell, the operation, the reference systems *)
(* of its operands, and the unit the notebook reports the result in ("" if *)
(* it names none).                                                         *)
Computed(k, op, crss, unit) == [cell |-> k, op |-> op, crs |-> crss, unit |-> unit]

(* Cell 28: gfShape.area                                                   *)
ShowArea ==
  /\ Step(28)
  /\ geo' = Append(geo, Computed(28, "area", <<Obj("gfShape").crs>>, ""))
  /\ UNCHANGED <<env, heap, fetched, io>>

(* Mutant of ReprojectShape: to_crs without inplace=True, its result       *)
(* dropped.                                                                *)
ReprojectShapeDiscarded ==
  /\ Step(29)
  /\ UNCHANGED <<env, heap, fetched, io, geo>>

(* Cell 29: gfShape.to_crs('epsg:32610', inplace=True)                     *)
ReprojectShape ==
  /\ Step(29)
  /\ heap' = [heap EXCEPT ![env["gfShape"].id] = ToCrs(@, "epsg:32610")]
  /\ UNCHANGED <<env, fetched, io, geo>>

(* Cell 30: area = gfShape.area.values[0] * 1e-6  (printed as km^2)        *)
AreaKm2 ==
  /\ Step(30)
  /\ env' = Bind(env, "area", Num(AreaOf(Obj("gfShape"))[1] \div 2000000))
  /\ geo' = Append(geo, Computed(30, "area", <<Obj("gfShape").crs>>, "km^2"))
  /\ UNCHANGED <<heap, fetched, io>>

-----------------------------------------------------------------------------
(* The code cells, third part: the trips table and distances.              *)

(* Mutant of ReadDist: the URL of the places file, read a second time.     *)
ReadDistFromPlacesUrl ==
  /\ Step(32)
  /\ \E rows \in PlaceTables :
       heap' = Append(heap, ReadCsv(PlaceCols, rows))
  /\ env' = Bind(env, "dfD", Ref(NewId))
  /\ io' = Append(io, [op |-> "read", target |-> PlacesUrl, cell |-> 32])
  /\ UNCHANGED <<fetched, geo>>

(* Cell 32: dfD = gpd.pd.read_csv('...Dist_Out.csv')                       *)
ReadDist ==
  /\ Step(32)
  /\ \E rows \in TripTables :
       /\ fetched' = [fetched EXCEPT !.trips = rows]
       /\ heap' = Append(heap, ReadCsv(TripCols, rows))
  /\ env' = Bind(env, "dfD", Ref(NewId))
  /\ io' = Append(io, [op |-> "read", target |-> DistUrl, cell |-> 32])
  /\ UNCHANGED geo

(* Cell 36: row = 0; dest = dfD.place_id.iloc[row]                         *)
PickDest ==
  /\ Step(36)
  /\ env' = Bind(Bind(env, "row", Num(0)), "dest", Str(Column(Obj("dfD"), "place_id")[1]))
  /\ UNCHANGED <<heap, fetched, io, geo>>

(* Cell 37: crs = 'EPSG:4326'                                              *)
(*          gfD = gpd.GeoDataFrame(dfD, geometry=gpd.points_from_xy(       *)
(*                    dfD.start_lon, dfD.start_lat), crs=crs)              *)
MakeGfD ==
  /\ Step(37)
  /\ heap' = Append(heap,
               GeoDataFrame(Obj("dfD"),
                            PointsFromXY(Column(Obj("dfD"), "start_lon"),
                                         Column(Obj("dfD"), "start_lat")),
                            "EPSG:4326"))
  /\ env' = Bind(Bind(env, "crs", Str("EPSG:4326")), "gfD", Ref(NewId))
  /\ UNCHANGED <<fetched, io, geo>>

(* Mutant of Reproject: both frames reprojected in place, the new names    *)
(* bound to the same objects.                                              *)
ReprojectInPlace ==
  /\ Step(38)
  /\ heap' = [heap EXCEPT ![env["gf"].id] = ToCrs(@, "epsg:32610"),
                          ![env["gfD"].id] = ToCrs(@, "epsg:32610")]
  /\ env' = Bind(Bind(env, "gf_merc", env["gf"]), "gfD_merc", env["gfD"])
  /\ UNCHANGED <<fetched, io, geo>>

(* Mutant of Reproject: the results are assigned to gf and gfD as well.    *)
ReprojectRebinding ==
  /\ Step(38)
  /\ heap' = heap \o << ToCrs(Obj("gf"), "epsg:32610"), ToCrs(Obj("gfD"), "epsg:32610") >>
  /\ env' = Bind(Bind(Bind(Bind(env, "gf_merc", Ref(NewId)), "gfD_merc", Ref(NewId + 1)),
                      "gf", Ref(NewId)), "gfD", Ref(NewId + 1))
  /\ UNCHANGED <<fetched, io, geo>>

(* Cell 38: gf_merc = gf.to_crs('epsg:32610')                              *)
(*          gfD_merc = gfD.to_crs('epsg:32610')                            *)
Reproject ==
  /\ Step(38)
  /\ heap' = heap \o << ToCrs(Obj("gf"), "epsg:32610"), ToCrs(Obj("gfD"), "epsg:32610") >>
  /\ env' = Bind(Bind(env, "gf_merc", Ref(NewId)), "gfD_merc", Ref(NewId + 1))
  /\ UNCHANGED <<fetched, io, geo>>

(* frame.query('place_id == @id').geometry.values[0], with the reference   *)
(* system of the frame it is taken from.  Defined when a row matches.      *)
Matches(f, id) == Query(f, "place_id", id)
FirstGeometry(f) == Geo(At(f, 1, f.geom), f.crs)

(* Cell 39: pointDest = gf_merc.query('place_id == @dest').geometry.values[0] *)
PointDest ==
  /\ Step(39)
  /\ Len(Matches(Obj("gf_merc"), env["dest"].v).rows) > 0
  /\ env' = Bind(env, "pointDest", FirstGeometry(Matches(Obj("gf_merc"), env["dest"].v)))
  /\ UNCHANGED <<heap, fetched, io, geo>>

(* Cell 40: pointOrig = gfD_merc.geometry.iloc[0]                          *)
PointOrig ==
  /\ Step(40)
  /\ env' = Bind(env, "pointOrig", FirstGeometry(Obj("gfD_merc")))
  /\ UNCHANGED <<heap, fetched, io, geo>>

(* Metres to miles: m / 1609.34, rounded down.                             *)
Miles(m) == (m * 100) \div 160934

(* Cell 41: dist_m = pointDest.distance(pointOrig)  (printed as meters)    *)
(*          dist_mi = dist_m/1609.34                (printed as miles)     *)
StraightLine ==
  /\ Step(41)
  /\ LET d == Distance(env["pointDest"].v, env["pointOrig"].v)
         crss == <<env["pointDest"].crs, env["pointOrig"].crs>>
     IN /\ env' = Bind(Bind(env, "dist_m", Num(d)), "dist_mi", Num(Miles(d)))
        /\ geo' = geo \o << Computed(41, "distance", crss, "meters"),
                            Computed(41, "distance", crss, "miles") >>
  /\ UNCHANGED <<heap, fetched, io>>


(* Mutant of SelectDest: the destination point looked up in gf, the frame  *)
(* that was not reprojected.                                               *)
SelectDestUnprojected ==
  /\ Step(44)
  /\ Len(Matches(Obj("gf"), PId).rows) > 0
  /\ heap' = Append(heap, Matches(Obj("gfD_merc"), PId))
  /\ env' = Bind(Bind(Bind(env, "pId", Str(PId)),
                      "pointDest", FirstGeometry(Matches(Obj("gf"), PId))),
                 "gfDest", Ref(NewId))
  /\ UNCHANGED <<fetched, io, geo>>

(* Mutant of SelectDest: the second statement looks the point up and does  *)
(* not assign it; pointDest keeps the value cell 39 gave it.               *)
SelectDestKeepingPoint ==
  /\ Step(44)
  /\ Len(Matches(Obj("gf_merc"), PId).rows) > 0
  /\ heap' = Append(heap, Matches(Obj("gfD_merc"), PId))
  /\ env' = Bind(Bind(env, "pId", Str(PId)), "gfDest", Ref(NewId))
  /\ UNCHANGED <<fetched, io, geo>>

(* Cell 44: pId = 'ChIJEerXpl0RkFQRDOjfwBQDzlA'                            *)
(*          pointDest = gf_merc.query('place_id == @pId').geometry.values[0] *)
(*          gfDest = gfD_merc.query('place_id == @pId')                    *)
SelectDest ==
  /\ Step(44)
  /\ Len(Matches(Obj("gf_merc"), PId).rows) > 0
  /\ heap' = Append(heap, Matches(Obj("gfD_merc"), PId))
  /\ env' = Bind(Bind(Bind(env, "pId", Str(PId)),
                      "pointDest", FirstGeometry(Matches(Obj("gf_merc"), PId))),
                 "gfDest", Ref(NewId))
  /\ UNCHANGED <<fetched, io, geo>>

(* Cell 45: gfDest.loc[:,'straightDist'] =                                 *)
(*              gfDest.distance(pointDest).values/1609.34                  *)
StraightDist ==
  /\ Step(45)
  /\ LET d == DistanceTo(Obj("gfDest"), env["pointDest"].v)
     IN heap' = [heap EXCEPT ![env["gfDest"].id] =
                   SetCol(@, "straightDist", [i \in 1..Len(d) |-> Miles(d[i])])]
  /\ geo' = Append(geo, Computed(45, "distance",
                                 <<Obj("gfDest").crs, env["pointDest"].crs>>, "miles"))
  /\ UNCHANGED <<env, fetched, io>>

-----------------------------------------------------------------------------
(* The code cells, fourth part: joins.                                     *)

(* Cell 46: columns = ('place_id','departure_time','distance.value',       *)
(*                     'duration.value')                                   *)
(*          gfSubset = gfD.loc[:,columns]                                  *)
(*          gfPlace = gfSubset.merge(gf, on='place_id')                    *)
AttributeJoin ==
  /\ Step(46)
  /\ LET sub == LocCols(Obj("gfD"), SubsetCols)
     IN heap' = heap \o << sub, Merge(sub, Obj("gf"), "place_id") >>
  /\ env' = Bind(Bind(Bind(env, "columns", Tup(SubsetCols)), "gfSubset", Ref(NewId)),
                 "gfPlace", Ref(NewId + 1))
  /\ UNCHANGED <<fetched, io, geo>>

(* Cell 47: URL = '...neighborhoods.geojson'; gfN = gpd.read_file(URL)     *)
ReadHoods ==
  /\ Step(47)
  /\ \E rows \in HoodTables :
       /\ fetched' = [fetched EXCEPT !.hoods = rows]
       /\ heap' = Append(heap, ReadFile(HoodCols, rows))
  /\ env' = Bind(Bind(env, "URL", Str(NhoodUrl)), "gfN", Ref(NewId))
  /\ io' = Append(io, [op |-> "read", target |-> NhoodUrl, cell |-> 47])
  /\ UNCHANGED geo

(* Cell 49: neighborhood = 'University District'                           *)
(*          gfNeighborhood = gfN.query('nhood == @neighborhood')           *)
SelectHood ==
  /\ Step(49)
  /\ heap' = Append(heap, Query(Obj("gfN"), "nhood", UDistrict))
  /\ env' = Bind(Bind(env, "neighborhood", Str(UDistrict)), "gfNeighborhood", Ref(NewId))
  /\ UNCHANGED <<fetched, io, geo>>

(* Cell 50: nhood_places = gpd.sjoin(gf, gfNeighborhood, how="inner",      *)
(*                                   predicate='within')                   *)
SpatialJoin ==
  /\ Step(50)
  /\ heap' = Append(heap, SJoin(Obj("gf"), Obj("gfNeighborhood")))
  /\ env' = Bind(env, "nhood_places", Ref(NewId))
  /\ geo' = Append(geo, Computed(50, "sjoin",
                                 <<Obj("gf").crs, Obj("gfNeighborhood").crs>>, ""))
  /\ UNCHANGED <<fetched, io>>

-----------------------------------------------------------------------------
(* Cells that raise.                                                       *)

(* A remote read fails (no network, the file is gone): the URL named by    *)
(* the cell's first statement stays bound, nothing is loaded.              *)
RaiseRead ==
  /\ pc \in {4, 32, 47}
  /\ Stop(pc)
  /\ env' = CASE pc = 4 -> Bind(env, "filePath", Str(PlacesUrl))
              [] pc = 47 -> Bind(env, "URL", Str(NhoodUrl))
              [] OTHER -> env
  /\ UNCHANGED <<heap, fetched, io, geo>>

(* A write of cell 27 fails (no ./data directory, no permission): the      *)
(* first one, or the second one after the first has been done.             *)
RaiseWrite ==
  /\ Stop(27)
  /\ NamesBound(27)
  /\ \E done \in 0..1 :
       io' = io \o SubSeq(<<Written(Obj("gf"), PlacesPath, "GeoJSON", 27)>>, 1, done)
  /\ UNCHANGED <<env, heap, fetched, geo>>

(* The cell at k cannot finish: a name it reads is not bound (NameError),  *)
(* a column it reads is not there (KeyError), or values[0] finds no row    *)
(* (IndexError).                                                           *)
LookupFails(k) ==
  \/ ~ NamesBound(k)
  \/ NamesBound(k) /\ ~ ColsPresent(k)
  \/ NamesBound(k) /\ k = 39 /\ Len(Matches(Obj("gf_merc"), env["dest"].v).rows) = 0
  \/ NamesBound(k) /\ k = 44 /\ Len(Matches(Obj("gf_merc"), PId).rows) = 0

RaiseLookup ==
  /\ pc \in 1..NCells
  /\ LookupFails(pc)
  /\ Stop(pc)
  /\ env' = IF pc = 44 /\ NamesBound(44) /\ ColsPresent(44)
            THEN Bind(env, "pId", Str(PId)) ELSE env
  /\ UNCHANGED <<heap, fetched, io, geo>>

-----------------------------------------------------------------------------
Next ==
  \/ Display
  \/ ReadPlaces
  \/ RenameClass
  \/ ExtractNan
  \/ MakeGf
  \/ Hull
  \/ Perimeter
  \/ MakeShape
  \/ Subset
  \/ Export
  \/ ShowArea
  \/ ReprojectShape
  \/ AreaKm2
  \/ ReadDist
  \/ PickDest
  \/ MakeGfD
  \/ Reproject
  \/ PointDest
  \/ PointOrig
  \/ StraightLine
  \/ SelectDest
  \/ StraightDist
  \/ AttributeJoin
  \/ ReadHoods
  \/ SelectHood
  \/ SpatialJoin
  \/ RaiseRead
  \/ RaiseWrite
  \/ RaiseLookup

Spec == Init /\ [][Next]_vars

(* The kernel runs the cell that is next for as long as there is one.      *)
FairSpec == Spec /\ WF_vars(Next)

(* Cell 4 on a places file whose rows are positions of the grid.           *)
ReadPlacesGrid ==
  /\ Step(4)
  /\ \E rows \in GridTables :
       /\ fetched' = [fetched EXCEPT !.places = rows]
       /\ heap' = Append(heap, ReadCsv(PlaceCols, rows))
  /\ env' = Bind(Bind(env, "filePath", Str(PlacesUrl)), "df", Ref(NewId))
  /\ io' = Append(io, [op |-> "read", target |-> PlacesUrl, cell |-> 4])
  /\ UNCHANGED geo

(* The run through the cells that make, export and reproject the hull      *)
(* (cells 1 to 31; no later cell reads or changes polygon or gfShape), on  *)
(* places files of up to MaxPoints grid positions.  The run ends where the *)
(* trips file would be read.                                               *)
HullNext ==
  \/ Display
  \/ ReadPlacesGrid
  \/ RenameClass
  \/ ExtractNan
  \/ MakeGf
  \/ Hull
  \/ Perimeter
  \/ MakeShape
  \/ Subset
  \/ Export
  \/ ShowArea
  \/ ReprojectShape
  \/ AreaKm2
  \/ RaiseRead
  \/ RaiseWrite

HullSpec == Init /\ [][HullNext]_vars

-----------------------------------------------------------------------------
(* Properties.                                                             *)

Ran(k) == runs[k] > 0
Reads_(url) == { n \in 1..Len(io) : io[n].op = "read" /\ io[n].target = url }
Writes == SelectSeq(io, LAMBDA e : e.op = "write")
Count(seq, v) == Cardinality({ n \in 1..Len(seq) : seq[n] = v })

(* C1, as stated: across the cells the only state change is the binding of *)
(* a name to a new value; no cell modifies in place an object an earlier   *)
(* cell created.                                                           *)
C1_NoObjectModified ==
  [][\A o \in 1..Len(heap) : heap'[o] = heap[o]]_vars

(* C1, amended: objects are never removed, and an object an earlier cell   *)
(* created is modified in place by exactly three cells and in no other:    *)
(* cell 10 changes the header of df and none of its rows, cell 29 changes  *)
(* the coordinates and the reference system of gfShape, cell 45 adds the   *)
(* column straightDist to gfDest.  gf, dfD, gfD, gf_merc and gfD_merc are  *)
(* never modified.                                                         *)
C1_InPlaceOnlyInThreeCells ==
  [][/\ Len(heap') >= Len(heap)
     /\ \A o \in 1..Len(heap) :
          heap'[o] # heap[o] =>
            \/ /\ pc = 10 /\ o = env["df"].id
               /\ heap'[o].rows = heap[o].rows /\ heap'[o].index = heap[o].index
               /\ heap'[o].cols # heap[o].cols
            \/ /\ pc = 29 /\ o = env["gfShape"].id
               /\ heap'[o].cols = heap[o].cols /\ heap'[o].index = heap[o].index
               /\ heap'[o].crs # heap[o].crs
            \/ /\ pc = 45 /\ o = env["gfDest"].id
               /\ heap'[o].cols = Append(heap[o].cols, "straightDist")
               /\ heap'[o].index = heap[o].index /\ heap'[o].crs = heap[o].crs
               /\ \A i \in 1..Len(heap[o].rows) :
                    SubSeq(heap'[o].rows[i], 1, Len(heap[o].cols)) = heap[o].rows[i]]_vars

(* C1, witness: a finished run in which the three in-place changes show.   *)
C1_Witness ==
  /\ status = "done"
  /\ HasCol(Obj("df"), "place_class") /\ ~ HasCol(Obj("df"), "class")
  /\ Obj("gfShape").crs = UTM10N
  /\ HasCol(Obj("gfDest"), "straightDist") /\ Len(Obj("gfDest").rows) > 0


(* C2, as stated: every code cell executes exactly once, in document       *)
(* order, and the run reaches the last cell and terminates: a run that has *)
(* ended has executed every cell once, and at no time has a cell run twice *)
(* or before an earlier one.                                               *)
C2_EveryCellRunsOnce ==
  /\ \A k \in 1..NCells : runs[k] <= 1
  /\ \A k \in 1..NCells : Ran(k) => \A j \in 1..(k - 1) : Ran(j)
  /\ status # "running" => \A k \in 1..NCells : runs[k] = 1

(* The cells before pc have executed once each and no cell after pc has    *)
(* executed; the cell at pc has executed only if it raised.                *)
InOrder ==
  /\ pc \in 1..(NCells + 1)
  /\ \A k \in 1..NCells :
       runs[k] = IF k < pc \/ (k = pc /\ status = "failed") THEN 1 ELSE 0
  /\ status = "done" <=> pc = NCells + 1

(* C2, amended: every code cell executes at most once, in document order,  *)
(* one at a time; no cell is re-executed or skipped; and the run always    *)
(* terminates: after the last cell, with every cell executed exactly once, *)
(* or at the first cell that raises, with no later cell executed.          *)
C2_RunsInOrderAndEnds ==
  /\ []InOrder
  /\ [][\/ pc' = pc + 1 /\ status = "running" /\ status' # "failed"
        \/ pc' = pc /\ status = "running" /\ status' = "failed"]_vars
  /\ <>(status \in {"done", "failed"})

(* C2, witness: a run that has ended at the last cell.                     *)
C2_Witness ==
  /\ status = "done"
  /\ \A k \in 1..NCells : runs[k] = 1

(* C3: each remote input is loaded at most once, and exactly once in a run *)
(* that finishes; whatever a name derived from a source holds was loaded   *)
(* before (the read of a source precedes every cell that uses it); only    *)
(* the three sources are read; and every write goes to a local path, none  *)
(* to a remote source.                                                     *)
DerivedFrom(url) ==
  CASE url = PlacesUrl -> {"df", "dfNan", "gf", "point_collection", "polygon", "perimeter",
                           "gfShape", "subset", "area", "gf_merc", "pointDest", "dist_m",
                           "gfPlace", "nhood_places"}
    [] url = DistUrl -> {"dfD", "dest", "gfD", "gfD_merc", "pointOrig", "dist_m", "gfDest",
                         "gfSubset", "gfPlace"}
    [] OTHER -> {"gfN", "gfNeighborhood", "nhood_places"}

FirstUse(url) ==
  CASE url = PlacesUrl -> 5
    [] url = DistUrl -> 33
    [] OTHER -> 48

PlacePoint(row) == [g |-> "Point", xy |-> <<row[5], row[4]>>]
TripPoint(row) == [g |-> "Point", xy |-> <<row[15], row[14]>>]

C5_OnePointPerRow ==
  /\ Bound("gf") =>
       LET f == Obj("gf") IN
       /\ Len(f.rows) = Len(fetched.places)
       /\ f.index = [i \in 1..Len(fetched.places) |-> i - 1]
       /\ \A i \in 1..Len(f.rows) : f.rows[i] = Append(fetched.places[i], PlacePoint(fetched.places[i]))
       /\ f.geom = "geometry" /\ f.crs = "EPSG:4326"
  /\ Bound("gfD") =>
       LET f == Obj("gfD") IN
       /\ Len(f.rows) = Len(fetched.trips)
       /\ f.index = [i \in 1..Len(fetched.trips) |-> i - 1]
       /\ \A i \in 1..Len(f.rows) : f.rows[i] = Append(fetched.trips[i], TripPoint(fetched.trips[i]))
       /\ f.geom = "geometry" /\ f.crs = "EPSG:4326"

(* C5, witness: both frames built, from tables of several different rows.  *)
C5_Witness ==
  /\ Bound("gf") /\ Bound("gfD")
  /\ Len(Obj("gf").rows) = 3 /\ Obj("gf").rows[1] # Obj("gf").rows[2]
  /\ Len(Obj("gfD").rows) = 2 /\ Obj("gfD").rows[1] # Obj("gfD").rows[2]


(* The computations done so far that combine two geometric datasets.       *)
Combined(k, op) == { n \in 1..Len(geo) : geo[n].cell = k /\ geo[n].op = op }

(* C6: whenever a cell combines two geometric datasets (the distance of    *)
(* cell 41, the distances of cell 45, the spatial join of cell 50), both   *)
(* operands are in the same coordinate reference system; and each of these *)
(* cells, once run, has done so.                                           *)
C6_OperandsShareCrs ==
  /\ \A n \in 1..Len(geo) : Len(geo[n].crs) = 2 => geo[n].crs[1] = geo[n].crs[2]
  /\ pc > 41 => Combined(41, "distance") # {}
  /\ pc > 45 => Combined(45, "distance") # {}
  /\ pc > 50 => Combined(50, "sjoin") # {}
  /\ \A n \in Combined(41, "distance") \cup Combined(45, "distance") \cup Combined(50, "sjoin") :
       Len(geo[n].crs) = 2

(* C6, witness: a finished run, the three combinations done.               *)
C6_Witness ==
  /\ status = "done"
  /\ Combined(41, "distance") # {} /\ Combined(45, "distance") # {}
  /\ Combined(50, "sjoin") # {}

(* The quantities the notebook reports in a ground unit.                   *)
Reported(unit) == { n \in 1..Len(geo) : geo[n].unit = unit }

(* C7: every quantity reported in a ground unit (the area in km^2 of cell  *)
(* 30, the distance in meters and in miles of cell 41, the straightDist    *)
(* column of cell 45) is computed from geometries that are in epsg:32610   *)
(* when it is computed; each of these cells, once run, has reported its    *)
(* quantity.                                                               *)
C7_GroundUnitsFromUtm ==
  /\ \A n \in 1..Len(geo) :
       geo[n].unit # "" => \A c \in 1..Len(geo[n].crs) : geo[n].crs[c] = "EPSG:32610"
  /\ pc > 30 => \E n \in Reported("km^2") : geo[n].cell = 30 /\ geo[n].op = "area"
  /\ pc > 41 => /\ \E n \in Reported("meters") : geo[n].cell = 41
                /\ \E n \in Reported("miles") : geo[n].cell = 41
  /\ pc > 45 => \E n \in Reported("miles") : geo[n].cell = 45

(* C7, witness: a finished run: all four quantities reported, and the area *)
(* that cell 28 shows without a unit was taken in degrees.                 *)
C7_Witness ==
  /\ status = "done"
  /\ Reported("km^2") # {} /\ Reported("meters") # {} /\ Cardinality(Reported("miles")) = 2
  /\ \E n \in Reported("") : geo[n].op = "area" /\ geo[n].crs = <<"EPSG:4326">>

(* The row the attribute join makes of a trips row and a places row: the   *)
(* four selected trip columns (place_id is the 12th column of the trips    *)
(* file), then the columns of gf but for place_id (its 6th).               *)
JoinedRow(t, p) ==
  <<t[12], t[2], t[3], t[4], p[1], p[2], p[3], p[4], p[5], p[7], p[8], p[9], PlacePoint(p)>>

MatchingPairs ==
  { q \in (1..Len(fetched.trips)) \X (1..Len(fetched.places)) :
      fetched.trips[q[1]][12] = fetched.places[q[2]][6] }

(* C8: gfPlace holds exactly one row for every pair of a trip row and a    *)
(* place row with equal place_id, and nothing else: the pairs are decided  *)
(* by the place_id values alone.                                           *)
C8_MergeIsInnerJoinOnPlaceId ==
  Bound("gfPlace") =>
    LET R == Obj("gfPlace")
        row(q) == JoinedRow(fetched.trips[q[1]], fetched.places[q[2]])
    IN /\ Len(R.rows) = Cardinality(MatchingPairs)
       /\ \A q \in MatchingPairs :
            Count(R.rows, row(q)) = Cardinality({ r \in MatchingPairs : row(r) = row(q) })
       /\ \A n \in 1..Len(R.rows) : \E q \in MatchingPairs : R.rows[n] = row(q)
       /\ R.cols = <<"place_id", "departure_time", "distance.value", "duration.value",
                     "name", "address", "city", "lat", "lng", "rating", "place_class",
                     "type", "geometry">>

(* C8, witness: a join with a matched pair, a trip whose place_id is in no *)
(* place row, and a place with no trip.                                    *)
C8_Witness ==
  /\ Bound("gfPlace")
  /\ Len(Obj("gfPlace").rows) >= 1
  /\ \E i \in 1..Len(fetched.trips) : \A q \in MatchingPairs : q[1] # i
  /\ \E j \in 1..Len(fetched.places) : \A q \in MatchingPairs : q[2] # j

(* The boxes of the boundary file: a point is within one when it lies      *)
(* strictly between its sides.                                             *)
StrictlyInside(xy, box) ==
  /\ \E v \in box.verts : v[1] < xy[1]
  /\ \E v \in box.verts : v[1] > xy[1]
  /\ \E v \in box.verts : v[2] < xy[2]
  /\ \E v \in box.verts : v[2] > xy[2]

(* The pairs of a places row and a row of the selected neighbourhood       *)
(* (nhood is the 2nd column of the boundary file, its polygon the 3rd).    *)
WithinPairs ==
  { q \in (1..Len(fetched.places)) \X (1..Len(fetched.hoods)) :
      /\ fetched.hoods[q[2]][2] = "University District"
      /\ StrictlyInside(PlacePoint(fetched.places[q[1]]).xy, fetched.hoods[q[2]][3]) }

(* The rows of nhood_places are the rows of gf within a selected polygon.  *)
RowsAreThoseWithin ==
  LET R == Obj("nhood_places")
  IN /\ { R.index[n] : n \in 1..Len(R.rows) } = { q[1] - 1 : q \in WithinPairs }
     /\ \A n \in 1..Len(R.rows) :
          SubSeq(R.rows[n], 1, 10) = Obj("gf").rows[R.index[n] + 1]

C10_NanRowsExtracted ==
  /\ Bound("df") => Obj("df").rows = fetched.places
  /\ Bound("dfNan") =>
       LET R == Obj("dfNan")
           missing == { i \in 1..Len(fetched.places) : fetched.places[i][3] = "NaN" }
       IN /\ { R.index[n] : n \in 1..Len(R.rows) } = { i - 1 : i \in missing }
          /\ Len(R.rows) = Cardinality(missing)
          /\ \A n \in 1..Len(R.rows) : R.rows[n] = fetched.places[R.index[n] + 1]
          /\ \A n \in 1..(Len(R.rows) - 1) : R.index[n] < R.index[n + 1]
          /\ R.cols = Obj("df").cols
  /\ \A name \in {"df", "dfNan", "gf", "subset", "gf_merc", "nhood_places"} :
       Bound(name) =>
         \A n \in 1..Len(Obj(name).rows) :
           At(Obj(name), n, "city") = fetched.places[Obj(name).index[n] + 1][3]

(* C10, witness: some rows without a city extracted, some with one left.   *)
C10_Witness ==
  /\ Bound("dfNan")
  /\ Len(Obj("dfNan").rows) >= 1
  /\ Len(Obj("dfNan").rows) < Len(Obj("df").rows)

-----------------------------------------------------------------------------
(* A step in which the cell at pc fails: a lookup of the cell cannot       *)
(* succeed, a reading cell loads nothing, or the exporting cell writes     *)
(* fewer than its two files.                                               *)
FailingStep ==
  \/ LookupFails(pc)
  \/ pc \in {4, 32, 47} /\ io' = io
  \/ pc = 27 /\ Len(io') < Len(io) + 2

(* C11: a cell that fails is not retried and the run does not recover: the *)
(* step in which the cell at pc fails ends the run at that cell, with the  *)
(* cell executed once, every object as it was and every name bound before  *)
(* still bound to the same value; a run that has failed takes no further   *)
(* step, and no cell after the failed one has executed.                    *)
C11_FailureStopsRun ==
  /\ [](status = "failed" =>
          /\ pc \in 1..NCells
          /\ runs[pc] = 1
          /\ \A k \in (pc + 1)..NCells : runs[k] = 0)
  /\ [][/\ status = "running"
        /\ FailingStep =>
             /\ status' = "failed"
             /\ pc' = pc
             /\ runs' = [runs EXCEPT ![pc] = 1]
             /\ heap' = heap
             /\ \A n \in DOMAIN env : n \in DOMAIN env' /\ env'[n] = env[n]]_vars

(* C11, witness: the read of the neighborhoods file has raised at cell 47: *)
(* the run has ended there, with URL and the names of the earlier cells    *)
(* bound and gfN not bound.                                                *)
C11_Witness ==
  /\ status = "failed"
  /\ pc = 47
  /\ {"URL", "df", "gf", "gfPlace"} \subseteq DOMAIN env
  /\ "gfN" \notin DOMAIN env

-----------------------------------------------------------------------------
(* The positions of the points of a frame, and a position of EPSG:4326     *)
(* carried to the reference system crs.                                    *)
PointsOf(f) == { At(f, i, f.geom).xy : i \in 1..Len(f.rows) }
CarriedTo(crs, xy) == IF crs = UTM10N THEN Project(xy) ELSE xy

(* The corner points of a geometry.                                        *)
VertsOf(geometry) == IF geometry.g = "Point" THEN {geometry.xy} ELSE geometry.verts

(* p lies inside the geometry or on its boundary: in a triangle of corners *)
(* of a polygon, on the segment of a line, at the point.                   *)
Covers(geometry, p) ==
  CASE geometry.g = "Polygon" ->
         \E a, b, c \in geometry.verts : InTriangle(p, a, b, c)
    [] geometry.g = "LineString" ->
         \E a, b \in geometry.verts : a # b /\ OnSegment(p, a, b)
    [] geometry.g = "Point" -> p = geometry.xy
    [] OTHER -> FALSE

(* Every corner sticks out: it lies neither between two other corners nor  *)
(* in a triangle of three others.                                          *)
CornersOnly(V) ==
  \A v \in V :
    /\ ~ \E a, b \in V \ {v} : a # b /\ OnSegment(v, a, b)
    /\ ~ \E a, b, c \in V \ {v} : InTriangle(v, a, b, c)

-----------------------------------------------------------------------------
(* The point of row i of gf lies in the bounding box of cell 25, border    *)
(* included.                                                               *)
InBox(i) ==
  LET p == At(Obj("gf"), i, "geometry").xy
  IN /\ env["xmin"].v <= p[1] /\ p[1] <= env["xmax"].v
     /\ env["ymin"].v <= p[2] /\ p[2] <= env["ymax"].v

(* C13: subset holds exactly the rows of gf whose point has                *)
(* xmin <= x <= xmax and ymin <= y <= ymax, for the four numbers cell 25   *)
(* binds: each row of subset is the row of gf with the same label, its     *)
(* point is in the box, the rows are in the order of gf, and every row of  *)
(* gf in the box is in subset; so subset is no longer than gf.  The cell   *)
(* makes a new frame and leaves gf as it was.                              *)
C13_SubsetIsRowsInBox ==
  /\ [](Bound("subset") =>
          LET g == Obj("gf")
              sub == Obj("subset")
          IN /\ <<env["xmin"].v, env["xmax"].v, env["ymin"].v, env["ymax"].v>>
                  = <<XMin, XMax, YMin, YMax>>
             /\ sub.cols = g.cols
             /\ Len(sub.rows) <= Len(g.rows)
             /\ \A n \in 1..Len(sub.rows) :
                  /\ sub.index[n] + 1 \in 1..Len(g.rows)
                  /\ sub.rows[n] = g.rows[sub.index[n] + 1]
                  /\ InBox(sub.index[n] + 1)
             /\ \A m, n \in 1..Len(sub.rows) : m < n => sub.index[m] < sub.index[n]
             /\ \A i \in 1..Len(g.rows) :
                  InBox(i) => \E n \in 1..Len(sub.rows) : sub.index[n] = g.index[i]
             /\ env["subset"] # env["gf"])
  /\ [][pc = 25 => /\ env'["gf"] = env["gf"]
                   /\ heap'[env["gf"].id] = heap[env["gf"].id]]_vars

(* C13, witness: subset is shorter than gf, and one of its points lies on  *)
(* the border of the box.                                                  *)
C13_Witness ==
  /\ Bound("subset")
  /\ Len(Obj("subset").rows) < Len(Obj("gf").rows)
  /\ \E n \in 1..Len(Obj("subset").rows) :
       At(Obj("subset"), n, "geometry").xy[1] = XMax

-----------------------------------------------------------------------------
(* The frame has the renamed column and not the old one, and the values in *)
(* the column are class values of the places file.                         *)
CarriesPlaceClass(f) ==
  /\ HasCol(f, "place_class")
  /\ ~ HasCol(f, "class")
  /\ \A n \in 1..Len(f.rows) :
       \E i \in 1..Len(fetched.places) :
         /\ At(f, n, "place_class") = fetched.places[i][8]
         /\ At(f, n, "place_id") = fetched.places[i][6]

(* C14: the step of cell 10 gives df the column place_class in the place   *)
(* of class and changes no other column name, no row value and no label;   *)
(* from then on df has place_class and no class, over the rows of the      *)
(* file; gf and gfPlace carry the renamed column; and no cell after cell   *)
(* 10 reads a column named class, so none fails for the lack of it.        *)
C14_ClassRenamedInPlace ==
  /\ [][pc = 10 =>
          LET old == heap[env["df"].id]
              new == heap'[env["df"].id]
          IN /\ env' = env
             /\ HasCol(old, "class") /\ ~ HasCol(old, "place_class")
             /\ Len(new.cols) = Len(old.cols)
             /\ \A i \in 1..Len(old.cols) :
                  new.cols[i] = IF old.cols[i] = "class" THEN "place_class" ELSE old.cols[i]
             /\ new.rows = old.rows
             /\ new.index = old.index]_vars
  /\ [](Ran(10) => /\ CarriesPlaceClass(Obj("df"))
                   /\ Obj("df").rows = fetched.places)
  /\ [](Bound("gf") => CarriesPlaceClass(Obj("gf")))
  /\ [](Bound("gfPlace") => CarriesPlaceClass(Obj("gfPlace")))
  /\ [](\A k \in 11..NCells : \A nc \in ReadsCols(k) : nc[2] # "class")
  /\ [](status = "failed" /\ NamesBound(pc) => ColsPresent(pc))

(* C14, witness: the run has passed cell 46, and gfPlace has a row with    *)
(* the class of its place in place_class.                                  *)
C14_Witness ==
  /\ Ran(10)
  /\ Bound("gfPlace")
  /\ Len(Obj("gfPlace").rows) > 0
  /\ At(Obj("gfPlace"), 1, "place_class") = "hospital"

-----------------------------------------------------------------------------
(* The writes of the polygon file, as positions of the io log.             *)
ShapeWrites == { n \in 1..Len(io) : io[n].op = "write" /\ io[n].target = ShapePath }

(* C15: ./data/myshape.gpkg is written by cell 27 while gfShape is in      *)
(* EPSG:4326, before cell 29 has reprojected gfShape in place: what        *)
(* reaches the file is the geometry gfShape holds then, in EPSG:4326.  The *)
(* file is written at most once and not after cell 29; from cell 29 on     *)
(* gfShape is in epsg:32610, so at the end of the run the reference system *)
(* of the file is not that of gfShape.                                     *)
C15_ShapeFileWrittenBeforeReprojection ==
  /\ [][Len(io') > Len(io) /\ io'[Len(io')].target = ShapePath =>
          /\ pc = 27
          /\ ~ Ran(29)
          /\ Obj("gfShape").crs = WGS84
          /\ io'[Len(io')].crs = WGS84
          /\ io'[Len(io')].driver = "GPKG"
          /\ io'[Len(io')].geoms = Column(Obj("gfShape"), "geometry")
          /\ io'[Len(io')].geoms = <<env["polygon"].v>>]_vars
  /\ [](Cardinality(ShapeWrites) <= 1)
  /\ [](\A n \in ShapeWrites : io[n].crs = WGS84 /\ io[n].cell = 27)
  /\ [](Ran(29) => /\ Cardinality(ShapeWrites) = 1
                   /\ Obj("gfShape").crs = UTM10N
                   /\ \A n \in ShapeWrites : io[n].crs # Obj("gfShape").crs)
  /\ [](status = "done" => Ran(29))

(* C15, witness: the run is done; the file holds a polygon in EPSG:4326    *)
(* and gfShape holds another, in epsg:32610.                               *)
C15_Witness ==
  /\ status = "done"
  /\ \E n \in ShapeWrites :
       /\ io[n].crs = WGS84
       /\ io[n].geoms[1].g = "Polygon"
       /\ Obj("gfShape").crs = UTM10N
       /\ Column(Obj("gfShape"), "geometry") # io[n].geoms

-----------------------------------------------------------------------------
(* The frame holds the rows of the file, each with its point in the        *)
(* coordinates of the file, in EPSG:4326.                                  *)
Unprojected(f, rows, points) ==
  /\ f.crs = WGS84
  /\ f.rows = [i \in 1..Len(rows) |-> Append(rows[i], points[i])]

(* The geometries of a frame are points of gf as they are in EPSG:4326.    *)
GeometryFromGf(f) ==
  \A n \in 1..Len(f.rows) :
    \E i \in 1..Len(fetched.places) : At(f, n, "geometry") = PlacePoint(fetched.places[i])

(* C16: cell 38 makes two new frames, in epsg:32610, and leaves gf and gfD *)
(* as they are: no step changes the object of gf or of gfD or binds the    *)
(* names anew, so from their construction to the end of the run gf and gfD *)
(* are in EPSG:4326 with the rows and points of the files; the attribute   *)
(* join and the spatial join, which read gf, read and keep unprojected     *)
(* points.                                                                 *)
C16_ReprojectionLeavesSources ==
  /\ [][\A name \in {"gf", "gfD"} :
          Bound(name) => /\ env'[name] = env[name]
                         /\ heap'[env[name].id] = heap[env[name].id]]_vars
  /\ [](Bound("gf") =>
          Unprojected(Obj("gf"), fetched.places,
                      [i \in 1..Len(fetched.places) |-> PlacePoint(fetched.places[i])]))
  /\ [](Bound("gfD") =>
          Unprojected(Obj("gfD"), fetched.trips,
                      [i \in 1..Len(fetched.trips) |-> TripPoint(fetched.trips[i])]))
  /\ [](Bound("gf_merc") =>
          /\ Cardinality({env[n].id : n \in {"gf", "gfD", "gf_merc", "gfD_merc"}}) = 4
          /\ Obj("gf_merc").crs = UTM10N
          /\ Obj("gfD_merc").crs = UTM10N
          /\ Column(Obj("gf_merc"), "geometry")
               = [i \in 1..Len(Obj("gf").rows) |-> Transform(At(Obj("gf"), i, "geometry"))]
          /\ Column(Obj("gfD_merc"), "geometry")
               = [i \in 1..Len(Obj("gfD").rows) |-> Transform(At(Obj("gfD"), i, "geometry"))])
  /\ [](Bound("gfPlace") => GeometryFromGf(Obj("gfPlace")))
  /\ [](Bound("nhood_places") =>
          /\ GeometryFromGf(Obj("nhood_places"))
          /\ Obj("nhood_places").crs = WGS84)
  /\ [](\A n \in 1..Len(geo) : geo[n].op = "sjoin" => geo[n].crs = <<WGS84, WGS84>>)

(* C16, witness: the run is done; gf and gf_merc hold different points,    *)
(* and both joins have made rows.                                          *)
C16_Witness ==
  /\ status = "done"
  /\ Obj("gf").crs = WGS84 /\ Obj("gf_merc").crs = UTM10N
  /\ Column(Obj("gf"), "geometry") # Column(Obj("gf_merc"), "geometry")
  /\ Len(Obj("gfPlace").rows) > 0
  /\ Len(Obj("nhood_places").rows) > 0

-----------------------------------------------------------------------------
(* The names the claim lists.                                              *)
ListedNames ==
  {"df", "gf", "polygon", "gfShape", "crs", "dfD", "dest", "gfD", "gf_merc", "gfD_merc",
   "pointDest", "pointOrig", "dist_m", "pId", "gfDest", "columns", "gfSubset", "gfN",
   "neighborhood", "gfNeighborhood", "nhood_places"}

(* The point of the first row of the places file with the given place_id,  *)
(* in epsg:32610.                                                          *)
FirstPoint(id) ==
  LET first == CHOOSE i \in 1..Len(fetched.places) :
                 /\ fetched.places[i][6] = id
                 /\ \A j \in 1..(i - 1) : fetched.places[j][6] # id
  IN Transform(PlacePoint(fetched.places[first]))

(* C17: every step finds the names its cell reads bound, so no run ends on *)
(* an unbound name, and a finished run has bound every listed name; a name *)
(* once bound stays bound, and keeps its value until a cell assigns to it  *)
(* again (only cell 44 gives a bound name, pointDest, another value).  The *)
(* value read is the latest: after cell 39 pointDest is the point of the   *)
(* place dest names, which cell 41 measures from; after cell 44 it is the  *)
(* point of the place pId names, which cell 45 measures from.              *)
C17_NamesBoundAndLatest ==
  /\ [][Reads(pc) \subseteq DOMAIN env]_vars
  /\ [](status = "failed" => NamesBound(pc))
  /\ [](status = "done" => ListedNames \subseteq DOMAIN env)
  /\ [][\A n \in DOMAIN env :
          /\ n \in DOMAIN env'
          /\ env'[n] # env[n] => n = "pointDest" /\ pc = 44 /\ pc' = 45]_vars
  /\ [](pc > 39 /\ pc <= 44 => env["pointDest"] = Geo(FirstPoint(env["dest"].v), UTM10N))
  /\ [](pc > 41 =>
          env["dist_m"].v = Distance(FirstPoint(env["dest"].v),
                                     Transform(TripPoint(fetched.trips[1]))))
  /\ [](pc > 44 => /\ env["pId"] = Str(PId)
                   /\ env["pointDest"] = Geo(FirstPoint(PId), UTM10N))
  /\ [][pc = 45 /\ pc' = 46 =>
          \A n \in 1..Len(Obj("gfDest").rows) :
            heap'[env["gfDest"].id].rows[n]
              = Append(Obj("gfDest").rows[n],
                       Miles(Distance(At(Obj("gfDest"), n, "geometry"), FirstPoint(PId))))]_vars

(* C17, witness: cell 45 has run in a run where dest and pId name          *)
(* different places, so that cells 39 and 44 bound pointDest to different  *)
(* points, and gfDest has a row to measure.                                *)
C17_Witness ==
  /\ pc > 45
  /\ env["dest"].v # PId
  /\ FirstPoint(env["dest"].v) # FirstPoint(PId)
  /\ env["pointDest"].v = FirstPoint(PId)
  /\ Len(Obj("gfDest").rows) > 0

=============================================================================
